---- MODULE Spec2Model ----
(***************************************************************************)
(* Model of src/llm_py/ollama.py: the prompt relay.  One run of the script  *)
(* is one process: it reads standard input, returns at once on a blank     *)
(* prompt, otherwise calls `ollama run <model>` through subprocess.run,    *)
(* waits for it, and relays the captured output or the captured error.     *)
(*                                                                         *)
(* Text is a sequence of characters.  The characters are "p" (any          *)
(* printable character), "SP" (space), "LF" (\n) and "CR" (\r).             *)
(***************************************************************************)
EXTENDS Integers, Sequences, FiniteSets, TLC

\* ---------------------------------------------------------------- bounds
MaxLen == 3          \* longest prompt on standard input
MaxOut == 2          \* longest text the child writes to its standard output
MaxErr == 1          \* longest text the child writes to its standard error

\* ------------------------------------------------------------ text model
PromptChars == {"p", "SP", "LF"}
OutChars    == {"a", "CR", "LF"}
ErrChars    == {"e", "CR"}

SeqsUpTo(S, n) == UNION {[1..k -> S] : k \in 0..n}

\* str.strip() with no argument removes leading and trailing whitespace
IsSpace(c) == c \in {"SP", "LF", "CR"}

RECURSIVE LStrip(_)
LStrip(s) == IF s # <<>> /\ IsSpace(Head(s)) THEN LStrip(Tail(s)) ELSE s

RECURSIVE RStrip(_)
RStrip(s) ==
    IF s # <<>> /\ IsSpace(s[Len(s)]) THEN RStrip(SubSeq(s, 1, Len(s) - 1)) ELSE s

Strip(s) == RStrip(LStrip(s))

\* `not prompt.strip()`: the emptiness test of line 8
IsBlankNoStrip(s) == s = <<>>
IsBlank(s) == Strip(s) = <<>>

\* text=True: what the child wrote is decoded with universal newlines,
\* "\r\n" and a lone "\r" both become "\n"
RECURSIVE TextRead(_)
TextRead(raw) ==
    IF raw = <<>> THEN <<>>
    ELSE IF Head(raw) = "CR"
         THEN IF Len(raw) >= 2 /\ raw[2] = "LF"
              THEN <<"LF">> \o TextRead(SubSeq(raw, 3, Len(raw)))
              ELSE <<"LF">> \o TextRead(Tail(raw))
         ELSE <<Head(raw)>> \o TextRead(Tail(raw))

\* text=True: what is written to the child's stdin has "\n" replaced by
\* os.linesep, which is "\n" for the POSIX interpreter of line 1
Linesep == <<"LF">>

RECURSIVE TextWrite(_)
TextWrite(s) ==
    IF s = <<>> THEN <<>>
    ELSE (IF Head(s) = "LF" THEN Linesep ELSE <<Head(s)>>) \o TextWrite(Tail(s))

\* input=prompt: the text handed to the child's standard input
ChildInputStripped(p) == TextWrite(Strip(p))
ChildInput(p) == TextWrite(p)

\* ----------------------------------------------------------- model name
DefaultModel == "qwen2.5-coder:7b"
EnvValues == {"unset", "", "modelX"}

\* line 12: the model is a literal; the environment is not consulted
ResolveModelFromEnv(e) == IF e \in {"unset", ""} THEN DefaultModel ELSE e
ResolveModel(e) == DefaultModel

\* ---------------------------------------------------------- exit status
\* returncode of subprocess: the exit status 0..255 of a child that exited,
\* or -N for a child killed by signal N
ReturnCodes == {0, 7, 255, -9}

\* sys.exit(n): the status the parent of the relay sees is n modulo 256
ExitStatusOne(n) == IF n = 0 THEN 0 ELSE 1
ExitStatus(n) == n % 256

NoStatus == -1       \* the process has not exited
Traceback == <<"Traceback">>   \* the interpreter's report of an uncaught exception
NoProc == [returncode |-> 0, stdout |-> <<>>, stderr |-> <<>>]

VARIABLES
    stdin,        \* the relay's standard input (fixed for the run)
    env,          \* value of the model configuration variable
    installed,    \* whether the `ollama` command can be launched
    child_rc,     \* behaviour of the child: its return code,
    child_out,    \*   what it writes to its stdout,
    child_err,    \*   what it writes to its stderr
    pc,           \* position of the relay in main()
    prompt,       \* local `prompt`
    model,        \* local `model`
    proc,         \* local `proc` (CompletedProcess)
    stdout,       \* what the relay has written to its stdout
    stderr,       \* what has been written to the relay's stderr
    exit_status,  \* the relay's exit status, NoStatus while it runs
    calls,        \* number of subprocess.run calls made
    launches,     \* number of child processes started
    child_state,  \* "none", "running", "exited"
    child_stdin,  \* what the child received on its stdin
    child_argv,   \* the child's command line
    run,          \* 1 for the first invocation, 2 for the second
    prev          \* observable result of the first invocation

vars == <<stdin, env, installed, child_rc, child_out, child_err, pc, prompt,
          model, proc, stdout, stderr, exit_status, calls, launches,
          child_state, child_stdin, child_argv, run, prev>>

world == <<stdin, env, installed, child_rc, child_out, child_err>>
runs  == <<run, prev>>

NoResult == [stdout |-> <<>>, stderr |-> <<>>, exit_status |-> NoStatus]

\* the state of a freshly started process: nothing is inherited from an
\* earlier invocation
FreshProcess ==
    /\ pc = "read"
    /\ prompt = <<>>
    /\ model = ""
    /\ proc = NoProc
    /\ stdout = <<>>
    /\ stderr = <<>>
    /\ exit_status = NoStatus
    /\ calls = 0
    /\ launches = 0
    /\ child_state = "none"
    /\ child_stdin = <<>>
    /\ child_argv = <<>>

Init ==
    /\ stdin \in SeqsUpTo(PromptChars, MaxLen)
    /\ env \in EnvValues
    /\ installed \in BOOLEAN
    /\ child_rc \in ReturnCodes
    /\ child_out \in SeqsUpTo(OutChars, MaxOut)
    /\ child_err \in SeqsUpTo(ErrChars, MaxErr)
    /\ FreshProcess
    /\ run = 1
    /\ prev = NoResult

\* line 7: prompt = sys.stdin.read()
ReadStdin ==
    /\ pc = "read"
    /\ prompt' = stdin
    /\ pc' = "strip"
    /\ UNCHANGED <<world, runs, model, proc, stdout, stderr, exit_status,
                   calls, launches, child_state, child_stdin, child_argv>>

\* lines 8-9: if not prompt.strip(): return   (main returns, exit status 0)
ReturnOnBlank ==
    /\ pc = "strip"
    /\ IsBlank(prompt)
    /\ pc' = "done"
    /\ exit_status' = 0
    /\ UNCHANGED <<world, runs, prompt, model, proc, stdout, stderr,
                   calls, launches, child_state, child_stdin, child_argv>>

\* line 8 not taken, line 12: model = "qwen2.5-coder:7b"
AssignModel ==
    /\ pc = "strip"
    /\ ~IsBlank(prompt)
    /\ model' = ResolveModel(env)
    /\ pc' = "run"
    /\ UNCHANGED <<world, runs, prompt, proc, stdout, stderr, exit_status,
                   calls, launches, child_state, child_stdin, child_argv>>

\* lines 15-21, the command cannot be started: subprocess.run raises
\* (FileNotFoundError), nothing in main() catches it, the interpreter writes
\* the traceback to stderr and the process ends with status 1
LaunchFailHandled ==
    /\ pc = "run"
    /\ ~installed
    /\ calls' = calls + 1
    /\ pc' = "done"
    /\ exit_status' = 0
    /\ UNCHANGED <<world, runs, prompt, model, proc, stdout, stderr, launches,
                   child_state, child_stdin, child_argv>>

LaunchFail ==
    /\ pc = "run"
    /\ ~installed
    /\ calls' = calls + 1
    /\ stderr' = stderr \o Traceback
    /\ exit_status' = 1
    /\ pc' = "done"
    /\ UNCHANGED <<world, runs, prompt, model, proc, stdout, launches,
                   child_state, child_stdin, child_argv>>

\* lines 15-21, the command starts: ["ollama", "run", model] with the
\* prompt on its stdin; the relay blocks in subprocess.run
LaunchUncaptured ==
    /\ pc = "run"
    /\ installed
    /\ calls' = calls + 1
    /\ launches' = launches + 1
    /\ child_state' = "running"
    /\ child_argv' = <<"ollama", "run", model>>
    /\ child_stdin' = ChildInput(prompt)
    /\ stdout' = stdout \o child_out
    /\ pc' = "wait"
    /\ UNCHANGED <<world, runs, prompt, model, proc, stderr, exit_status>>

Launch ==
    /\ pc = "run"
    /\ installed
    /\ calls' = calls + 1
    /\ launches' = launches + 1
    /\ child_state' = "running"
    /\ child_argv' = <<"ollama", "run", model>>
    /\ child_stdin' = ChildInput(prompt)
    /\ pc' = "wait"
    /\ UNCHANGED <<world, runs, prompt, model, proc, stdout, stderr,
                   exit_status>>

\* the child terminates (a step of the child, not of the relay)
ChildExit ==
    /\ child_state = "running"
    /\ child_state' = "exited"
    /\ UNCHANGED <<world, runs, pc, prompt, model, proc, stdout, stderr,
                   exit_status, calls, launches, child_stdin, child_argv>>

\* subprocess.run returns the CompletedProcess once the child has exited
RunReturnsOnTimeout ==
    /\ pc = "wait"
    /\ child_state \in {"running", "exited"}
    /\ proc' = [returncode |-> child_rc,
                stdout |-> TextRead(child_out),
                stderr |-> TextRead(child_err)]
    /\ pc' = "rc"
    /\ UNCHANGED <<world, runs, prompt, model, stdout, stderr, exit_status,
                   calls, launches, child_state, child_stdin, child_argv>>

RunReturns ==
    /\ pc = "wait"
    /\ child_state = "exited"
    /\ proc' = [returncode |-> child_rc,
                stdout |-> TextRead(child_out),
                stderr |-> TextRead(child_err)]
    /\ pc' = "rc"
    /\ UNCHANGED <<world, runs, prompt, model, stdout, stderr, exit_status,
                   calls, launches, child_state, child_stdin, child_argv>>

\* lines 23-25: if proc.returncode != 0: sys.stderr.write(proc.stderr)
WriteStderr ==
    /\ pc = "rc"
    /\ proc.returncode # 0
    /\ stderr' = stderr \o proc.stderr
    /\ pc' = "exit"
    /\ UNCHANGED <<world, runs, prompt, model, proc, stdout, exit_status,
                   calls, launches, child_state, child_stdin, child_argv>>

\* line 26: sys.exit(proc.returncode)
SysExitRetry ==
    /\ pc = "exit"
    /\ IF launches < 2
       THEN /\ pc' = "run"
            /\ exit_status' = exit_status
       ELSE /\ pc' = "done"
            /\ exit_status' = ExitStatus(proc.returncode)
    /\ UNCHANGED <<world, runs, prompt, model, proc, stdout, stderr,
                   calls, launches, child_state, child_stdin, child_argv>>

SysExit ==
    /\ pc = "exit"
    /\ exit_status' = ExitStatus(proc.returncode)
    /\ pc' = "done"
    /\ UNCHANGED <<world, runs, prompt, model, proc, stdout, stderr,
                   calls, launches, child_state, child_stdin, child_argv>>

\* line 29: sys.stdout.write(proc.stdout)
WriteStdoutAndStderr ==
    /\ pc = "rc"
    /\ proc.returncode = 0
    /\ stdout' = stdout \o proc.stdout
    /\ stderr' = stderr \o proc.stderr
    /\ pc' = "end"
    /\ UNCHANGED <<world, runs, prompt, model, proc, exit_status,
                   calls, launches, child_state, child_stdin, child_argv>>

WriteStdout ==
    /\ pc = "rc"
    /\ proc.returncode = 0
    /\ stdout' = stdout \o proc.stdout
    /\ pc' = "end"
    /\ UNCHANGED <<world, runs, prompt, model, proc, stderr, exit_status,
                   calls, launches, child_state, child_stdin, child_argv>>

\* main() returns after line 29 and the interpreter exits with status 0
ReturnFromMain ==
    /\ pc = "end"
    /\ exit_status' = 0
    /\ pc' = "done"
    /\ UNCHANGED <<world, runs, prompt, model, proc, stdout, stderr,
                   calls, launches, child_state, child_stdin, child_argv>>

\* lines 31-32: the script is invoked a second time, as a new process, with
\* the same standard input, environment and child behaviour
RestartStale ==
    /\ pc = "done"
    /\ run = 1
    /\ run' = 2
    /\ prev' = [stdout |-> stdout, stderr |-> stderr,
                exit_status |-> exit_status]
    /\ pc' = "read"
    /\ prompt' = <<>>
    /\ model' = ""
    /\ proc' = NoProc
    /\ exit_status' = NoStatus
    /\ calls' = 0
    /\ launches' = 0
    /\ child_state' = "none"
    /\ child_stdin' = <<>>
    /\ child_argv' = <<>>
    /\ UNCHANGED <<world, stdout, stderr>>

Restart ==
    /\ pc = "done"
    /\ run = 1
    /\ run' = 2
    /\ prev' = [stdout |-> stdout, stderr |-> stderr,
                exit_status |-> exit_status]
    /\ pc' = "read"
    /\ prompt' = <<>>
    /\ model' = ""
    /\ proc' = NoProc
    /\ stdout' = <<>>
    /\ stderr' = <<>>
    /\ exit_status' = NoStatus
    /\ calls' = 0
    /\ launches' = 0
    /\ child_state' = "none"
    /\ child_stdin' = <<>>
    /\ child_argv' = <<>>
    /\ UNCHANGED world

RelayStep ==
    \/ ReadStdin
    \/ ReturnOnBlank
    \/ AssignModel
    \/ LaunchFail
    \/ Launch
    \/ RunReturns
    \/ WriteStderr
    \/ SysExit
    \/ WriteStdout
    \/ ReturnFromMain

Next == RelayStep \/ ChildExit

\* one invocation
Spec == Init /\ [][Next]_vars

\* one invocation; the interpreter keeps executing the relay's statements,
\* nothing forces the child to terminate
LiveSpec == Init /\ [][Next]_vars /\ WF_vars(RelayStep)

\* two invocations in a row
NextRuns == Next \/ Restart
TwoRunSpec == Init /\ [][NextRuns]_vars

TypeOK ==
    /\ stdin \in SeqsUpTo(PromptChars, MaxLen)
    /\ pc \in {"read", "strip", "run", "wait", "rc", "exit", "end", "done"}
    /\ child_state \in {"none", "running", "exited"}
    /\ exit_status \in {NoStatus} \cup 0..255
    /\ run \in {1, 2}

\* ------------------------------------------------------------ properties

\* the input is empty or consists only of whitespace characters
OnlyWhitespace(s) == \A i \in 1..Len(s) : s[i] \in {"SP", "LF", "CR"}

\* the child was started in this run
Launched == child_state # "none"

\* C1: for an input that is empty or only whitespace the relay writes
\* nothing to stdout, nothing to stderr, never calls or starts the child
\* command, and when it has exited its status is 0.
C1_BlankInputSilent ==
    OnlyWhitespace(stdin) =>
        /\ stdout = <<>>
        /\ stderr = <<>>
        /\ calls = 0
        /\ launches = 0
        /\ child_state = "none"
        /\ pc \in {"read", "strip", "done"}
        /\ (pc = "done" => exit_status = 0)

C1_Witness ==
    /\ stdin # <<>>
    /\ OnlyWhitespace(stdin)
    /\ pc = "done"
    /\ exit_status = 0

\* C2: for a non-blank prompt whose child exited with a non-zero status c
\* (1..255), the finished relay has written exactly the text captured from
\* the child's stderr to its stderr, nothing to stdout, and its exit status
\* is c.
C2_FailureRelayed ==
    (pc = "done" /\ ~OnlyWhitespace(stdin) /\ Launched /\ child_rc \in 1..255) =>
        /\ stderr = TextRead(child_err)
        /\ stderr = proc.stderr
        /\ stdout = <<>>
        /\ exit_status = child_rc

C2_Witness ==
    /\ pc = "done"
    /\ ~OnlyWhitespace(stdin)
    /\ Launched
    /\ child_rc = 7
    /\ child_err # <<>>
    /\ child_out # <<>>
    /\ stderr = proc.stderr
    /\ exit_status = 7

\* C3: for a non-blank prompt whose child exited with status 0, the finished
\* relay's stdout is exactly the text captured from the child's stdout, its
\* stderr is empty even when the child wrote to stderr, and its exit status
\* is 0.
C3_SuccessRelayed ==
    (pc = "done" /\ ~OnlyWhitespace(stdin) /\ Launched /\ child_rc = 0) =>
        /\ stdout = TextRead(child_out)
        /\ stdout = proc.stdout
        /\ stderr = <<>>
        /\ exit_status = 0

C3_Witness ==
    /\ pc = "done"
    /\ ~OnlyWhitespace(stdin)
    /\ Launched
    /\ child_rc = 0
    /\ child_out # <<>>
    /\ child_err # <<>>
    /\ stdout = proc.stdout
    /\ exit_status = 0

\* C4: whenever the child has been started, the text on its stdin is the
\* relay's own stdin, leading and trailing whitespace included.
C4_PromptForwardedVerbatim ==
    Launched => child_stdin = stdin

C4_Witness ==
    /\ Launched
    /\ Strip(stdin) # stdin
    /\ child_stdin = stdin

\* C5 as stated: the child's model argument is the value of the
\* configuration variable when that is set to "modelX", and the default
\* identifier when it is unset or empty.
C5_ModelFromEnvironment ==
    Launched =>
        child_argv[3] = (IF env = "modelX" THEN "modelX" ELSE DefaultModel)

\* C5 amended: the child is always run as `ollama run qwen2.5-coder:7b`,
\* whatever the configuration variable holds.
C5_ModelIsLiteral ==
    Launched => child_argv = <<"ollama", "run", DefaultModel>>

C5_Witness ==
    /\ Launched
    /\ env = "modelX"
    /\ child_argv[3] = DefaultModel

\* C6 as stated: in every completed run, for every input, the child command
\* has been launched exactly once.
C6_LaunchedExactlyOnce ==
    pc = "done" => launches = 1

\* C6 amended: the blocking call is never made more than once; a completed
\* run has made it exactly once when the trimmed input is non-empty and not
\* at all when it is blank, and has started exactly one child when the call
\* could start the command and none otherwise.
C6_OneCallUnlessBlank ==
    /\ calls <= 1
    /\ launches <= calls
    /\ pc = "done" =>
          /\ calls = (IF OnlyWhitespace(stdin) THEN 0 ELSE 1)
          /\ launches = (IF ~OnlyWhitespace(stdin) /\ installed THEN 1 ELSE 0)

C6_Witness ==
    /\ pc = "done"
    /\ ~OnlyWhitespace(stdin)
    /\ child_rc # 0
    /\ calls = 1
    /\ launches = 1

Writes == stdout' # stdout \/ stderr' # stderr

\* C8 as stated: every write to stdout or stderr happens after the child has
\* terminated and its exit status is known, and the exit comes after the
\* write.
C8_WritesOnlyAfterChild ==
    [][/\ Writes => (child_state = "exited" /\ pc = "rc")
       /\ exit_status # NoStatus => ~Writes]_vars

\* C8 amended: every write of child text happens after the child has
\* terminated and subprocess.run has returned, while the relay has not
\* exited, and nothing is written after the exit; the one write made
\* without a terminated child is the interpreter's traceback on stderr when
\* the command could not be started.
C8_WritesAfterChildOrFault ==
    [][/\ Writes =>
            \/ /\ child_state = "exited"
               /\ pc = "rc"
               /\ exit_status = NoStatus
               /\ exit_status' = NoStatus
            \/ /\ child_state = "none"
               /\ ~installed
               /\ stdout' = stdout
               /\ stderr' = stderr \o Traceback
       /\ exit_status # NoStatus => ~Writes]_vars

C8_Witness ==
    /\ pc = "end"
    /\ child_state = "exited"
    /\ stdout # <<>>
    /\ exit_status = NoStatus

C10_LaunchFailureUnhandled ==
    (~OnlyWhitespace(stdin) /\ ~installed) =>
        /\ pc \notin {"wait", "rc", "exit", "end"}
        /\ proc = NoProc
        /\ stdout = <<>>
        /\ launches = 0
        /\ (pc = "done" => /\ stderr = Traceback
                           /\ exit_status # 0
                           /\ exit_status # NoStatus)

C10_Witness ==
    /\ ~OnlyWhitespace(stdin)
    /\ ~installed
    /\ pc = "done"
    /\ calls = 1
    /\ child_err # <<>>
    /\ exit_status = 1
====
